---- MODULE Spec2Model ----
(***************************************************************************)
(* Model of cmd_runner.CmdRun and CapturingPassThroughWriter               *)
(* (src/unnamed/part_001): one invocation of the deadline-bound process    *)
(* supervisor, together with the operating-system objects it acts on: the  *)
(* child process, one descendant, the two output pipes, the process table  *)
(* and a discrete clock.                                                   *)
(***************************************************************************)
EXTENDS Integers, Sequences, FiniteSets, TLC

\* ------------------------------------------------------------------ bounds
\* Bytes a pipe holds before a writer blocks.
PipeCap == 1
\* Bytes the child writes to one stream at most.
MaxOut == 2
\* Bytes one read of io.Copy returns at most.
ChunkCap == 1
\* The clock stops advancing here.
MaxTime == 4
\* Characters of a script path at most.
MaxPathLen == 3
\* Bytes of one slice passed to Write, and of all slices passed to one writer.
MaxSlice == 2
MaxSinkLen == 3

\* --------------------------------------------------------- program constants
\* "by default timeout should be 3s"
DefaultTimeout == 3
\* syscall.Kill(-pgid, 15)
SIGTERM == 15
\* cmd.SysProcAttr = &syscall.SysProcAttr{Setpgid: true}
Setpgid == TRUE
\* done := make(chan error, 1)
DoneCap == 1

\* ------------------------------------------------------------ environment
Streams == {"stdout", "stderr"}
Procs == {"sup", "child", "desc"}
Pid == [sup |-> 10, child |-> 20, desc |-> 30]
\* Timeouts the caller may pass.
TimeoutArgs == {-1, 0, 1, DefaultTimeout}
\* Exit statuses of a child that exits on its own.
ExitStatuses == {0, 1}
\* Wait status of a child ended by the termination signal.
StatusSignalled == 128 + SIGTERM
NoTimer == 0 - 1
\* Characters of script paths: a space, a newline, another character.
Space == " "
Newline == "\n"
PathChars == {Space, Newline, "x"}
\* Whitespace, as the path contract names it.
Whitespace == {Space, Newline}
\* The script paths a caller may pass, and the one the full runs are made with.
Paths == UNION {[1..n -> PathChars] : n \in 0..MaxPathLen}
RunPaths == {<<"x", Newline>>}

\* error values (Go's error interface): nil or a tagged value
ErrNil == <<"nil">>
ErrLaunch == <<"launch">>
ErrESRCH == <<"esrch">>
ErrShortWrite == <<"short write">>
ErrForward == <<"forward">>
ErrClosed == <<"file already closed">>
ErrCapture == <<"failed to capture stdout or stderr">>
ExitError(st) == <<"exit status", st>>
ErrFinished(e) == <<"process finished with error", e>>
NoReturn == <<"running">>

VARIABLES
  scriptOK,     \* whether the OS can start the script at cmd.Path
  scriptPath,   \* the parameter scriptPath
  cmdPath,      \* cmd.Path, the path exec.Command was given
  timeout,      \* the parameter timeout, overwritten by the default
  pc,           \* position of CmdRun's main logic
  gpc,          \* position of the goroutine started at line 64
  branch,       \* the case of the select statement that was taken
  pstate,       \* process table: state of each process
  pgrp,         \* process table: process group of each process
  holds,        \* the pipe write ends each process holds open
  status,       \* exit status of the child once it is a zombie
  signalled,    \* processes a termination signal was delivered to
  kills,        \* the targets of the kill system calls made
  pipe,         \* bytes in flight in each pipe
  readOpen,     \* whether the supervisor's read end of each pipe is open
  written,      \* every byte written to each stream, in order
  sink,         \* the two CapturingPassThroughWriters: buf and destination
  errStdout,    \* the variable errStdout
  errStderr,    \* the variable errStderr
  waitRes,      \* the value of cmd.Wait() before it is sent
  done,         \* the channel done
  pgid,         \* the local variable pgid
  ret,          \* the value CmdRun returned
  msgs,         \* messages printed by fmt.Printf
  now,          \* seconds since CmdRun was called
  timerAt,      \* the instant the time.After channel fires
  wret,         \* what the last call of Write returned
  destAns       \* what the destination answered to that call

vars == <<scriptOK, scriptPath, cmdPath, timeout, pc, gpc, branch, pstate,
          pgrp, holds,
          status, signalled, kills, pipe, readOpen, written, sink, errStdout,
          errStderr, waitRes, done, pgid, ret, msgs, now, timerAt, wret,
          destAns>>

inputVars == <<scriptOK, scriptPath>>
callVars == <<wret, destAns>>
osVars == <<pstate, pgrp, holds, status, signalled, kills>>
pipeVars == <<pipe, readOpen, written>>
goVars == <<gpc, errStdout, waitRes, done>>
mainVars == <<timeout, pc, branch, errStderr, pgid, ret, msgs, timerAt>>

\* ---------------------------------------------------------------- helpers
Alive(p) == pstate[p] \in {"running", "zombie"}

\* The write end of s is open somewhere, so a read of an empty pipe blocks.
HasWriter(s) == \E p \in Procs : pstate[p] = "running" /\ s \in holds[p]

Min(a, b) == IF a < b THEN a ELSE b

EmptySink == [buf |-> <<>>, fwd |-> <<>>]

\* The state CmdRun is entered in, but for its arguments.
InitRun ==
  /\ cmdPath = <<>>
  /\ pc = "entry"
  /\ gpc = "none"
  /\ branch = "none"
  /\ pstate = [p \in Procs |-> IF p = "sup" THEN "running" ELSE "none"]
  /\ pgrp = [p \in Procs |-> Pid["sup"]]
  /\ holds = [p \in Procs |-> {}]
  /\ status = 0
  /\ signalled = {}
  /\ kills = <<>>
  /\ pipe = [s \in Streams |-> <<>>]
  /\ readOpen = [s \in Streams |-> TRUE]
  /\ written = [s \in Streams |-> <<>>]
  /\ sink = [s \in Streams |-> EmptySink]
  /\ errStdout = ErrNil
  /\ errStderr = ErrNil
  /\ waitRes = ErrNil
  /\ done = <<>>
  /\ pgid = 0
  /\ ret = NoReturn
  /\ msgs = <<>>
  /\ now = 0
  /\ timerAt = NoTimer
  /\ wret = <<0, ErrNil>>
  /\ destAns = <<0, ErrNil>>

Init ==
  /\ scriptOK \in BOOLEAN
  /\ scriptPath \in RunPaths
  /\ timeout \in TimeoutArgs
  /\ InitRun

\* ------------------------------------------------------- CmdRun, lines 41-61
\* if timeout <= 0 that leaves a timeout of zero as it is.
EffectiveTimeoutStrict(t) == IF t < 0 THEN DefaultTimeout ELSE t

\* if timeout <= 0 { timeout = 3 }
EffectiveTimeout(t) == IF t <= 0 THEN DefaultTimeout ELSE t

\* strings.TrimRight(s, cutset): s without its trailing characters of cutset.
RECURSIVE TrimRight(_, _)
TrimRight(s, cutset) ==
  IF s # <<>> /\ s[Len(s)] \in cutset
  THEN TrimRight(SubSeq(s, 1, Len(s) - 1), cutset)
  ELSE s

\* The process group of a child started without Setpgid: its parent's.
ChildPgrpInherited == pgrp["sup"]

\* The process group cmd.Start gives the child: its own with Setpgid, the
\* parent's without.
ChildPgrp == IF Setpgid THEN Pid["child"] ELSE pgrp["sup"]

\* cmd.Start() failed and the error is dropped: the run goes on without a child.
StartFailedContinue ==
  /\ pc' = "copyStderr"
  /\ gpc' = "copyStdout"
  /\ ret' = ret
  /\ UNCHANGED <<msgs, osVars>>

\* cmd.Start() failed: return err.
StartFailed ==
  /\ pc' = "returned"
  /\ ret' = ErrLaunch
  /\ UNCHANGED <<msgs, osVars, gpc>>

\* cmd.Start() succeeded: the child runs in its process group holding the write
\* ends of both pipes, the start message is printed, the goroutine is started.
StartSucceeded ==
  /\ pstate' = [pstate EXCEPT !["child"] = "running"]
  /\ pgrp' = [pgrp EXCEPT !["child"] = ChildPgrp]
  /\ holds' = [holds EXCEPT !["child"] = Streams]
  /\ msgs' = Append(msgs, <<"start", scriptPath, timeout'>>)
  /\ gpc' = "copyStdout"
  /\ pc' = "copyStderr"
  /\ UNCHANGED <<status, signalled, kills, ret>>

Start ==
  /\ pc = "entry"
  /\ timeout' = EffectiveTimeout(timeout)
  /\ cmdPath' = TrimRight(scriptPath, {Newline})
  /\ IF scriptOK THEN StartSucceeded ELSE StartFailed
  /\ UNCHANGED <<inputVars, callVars, pipeVars, sink, branch, errStdout,
                 errStderr, waitRes, done, pgid, now, timerAt>>

\* -------------------------------------- CapturingPassThroughWriter, io.Copy
\* The k-th byte the child writes to stream s.
ByteOf(s, k) == IF s = "stdout" THEN k ELSE 100 + k

\* Write(d) that keeps only the bytes the destination accepted.
WriteForwardedOnly(w, d, n) ==
  [buf |-> w.buf \o SubSeq(d, 1, n), fwd |-> w.fwd \o SubSeq(d, 1, n)]

\* Write(d) that replaces the buffer by d instead of appending to it.
WriteOverwrite(w, d, n) == [buf |-> d, fwd |-> w.fwd \o SubSeq(d, 1, n)]

\* Write(d): w.buf.Write(d), then w.w.Write(d), of which the destination
\* accepts n bytes.
Write(w, d, n) == [buf |-> w.buf \o d, fwd |-> w.fwd \o SubSeq(d, 1, n)]

\* return w.w.Write(d): the destination's count and error, as they are.
WriteReturn(n, e) == <<n, e>>

\* Bytes() returns the buffer.
Bytes(w) == w.buf

\* What os.Stdout / os.Stderr may answer to Write(d): all of d, or fewer bytes
\* and an error.
DestOutcomes(d) ==
  {<<Len(d), ErrNil>>} \cup {<<n, ErrForward>> : n \in 0..(Len(d) - 1)}

\* io.Copy after one Write: the write error, or a short write, ends the copy.
CopyErr(nr, nw, ew) ==
  IF ew # ErrNil THEN ew ELSE IF nw # nr THEN ErrShortWrite ELSE ErrNil

ReadLen(s) == Min(Len(pipe[s]), ChunkCap)
Chunk(s) == SubSeq(pipe[s], 1, ReadLen(s))
Rest(s) == SubSeq(pipe[s], ReadLen(s) + 1, Len(pipe[s]))

\* One iteration of io.Copy(sink[s], pipe s): the possible results. A read of
\* a closed file fails; a read returns the bytes at hand; a read of an empty
\* pipe with no writer left is end-of-file; otherwise the read blocks.
CopyOutcomes(s) ==
  IF ~readOpen[s]
  THEN {[w |-> sink[s], p |-> pipe[s], fin |-> TRUE, err |-> ErrClosed]}
  ELSE IF pipe[s] # <<>>
  THEN {[w |-> Write(sink[s], Chunk(s), r[1]),
         p |-> Rest(s),
         fin |-> CopyErr(ReadLen(s), WriteReturn(r[1], r[2])[1],
                         WriteReturn(r[1], r[2])[2]) # ErrNil,
         err |-> CopyErr(ReadLen(s), WriteReturn(r[1], r[2])[1],
                         WriteReturn(r[1], r[2])[2])] :
           r \in DestOutcomes(Chunk(s))}
  ELSE IF ~HasWriter(s)
  THEN {[w |-> sink[s], p |-> pipe[s], fin |-> TRUE, err |-> ErrNil]}
  ELSE {}

\* ------------------------------------------------ the goroutine, lines 64-67
\* The goroutine without its cmd.Wait(): the copy, then the send.
GoCopyStdoutSkipWait ==
  /\ gpc = "copyStdout"
  /\ \E o \in CopyOutcomes("stdout") :
       /\ sink' = [sink EXCEPT !["stdout"] = o.w]
       /\ pipe' = [pipe EXCEPT !["stdout"] = o.p]
       /\ IF o.fin
          THEN errStdout' = o.err /\ gpc' = "send"
          ELSE UNCHANGED <<errStdout, gpc>>
  /\ UNCHANGED <<inputVars, cmdPath, callVars, osVars, mainVars, readOpen,
                 written, waitRes, done, now>>

\* The goroutine that returns without waiting when its copy of stdout failed.
GoCopyStdoutReturnOnError ==
  /\ gpc = "copyStdout"
  /\ \E o \in CopyOutcomes("stdout") :
       /\ sink' = [sink EXCEPT !["stdout"] = o.w]
       /\ pipe' = [pipe EXCEPT !["stdout"] = o.p]
       /\ IF o.fin
          THEN /\ errStdout' = o.err
               /\ gpc' = IF o.err = ErrNil THEN "wait" ELSE "finished"
          ELSE UNCHANGED <<errStdout, gpc>>
  /\ UNCHANGED <<inputVars, cmdPath, callVars, osVars, mainVars, readOpen,
                 written, waitRes, done, now>>

\* _, errStdout = io.Copy(stdout, stdoutIn)
GoCopyStdout ==
  /\ gpc = "copyStdout"
  /\ \E o \in CopyOutcomes("stdout") :
       /\ sink' = [sink EXCEPT !["stdout"] = o.w]
       /\ pipe' = [pipe EXCEPT !["stdout"] = o.p]
       /\ IF o.fin
          THEN errStdout' = o.err /\ gpc' = "wait"
          ELSE UNCHANGED <<errStdout, gpc>>
  /\ UNCHANGED <<inputVars, cmdPath, callVars, osVars, mainVars, readOpen,
                 written, waitRes, done, now>>

\* The value of cmd.Wait() for an exit status.
WaitResult(st) == IF st = 0 THEN ErrNil ELSE ExitError(st)

\* cmd.Wait(): blocks until the child has exited, reaps it and closes the read
\* ends of both pipes.
GoWait ==
  /\ gpc = "wait"
  /\ pstate["child"] = "zombie"
  /\ pstate' = [pstate EXCEPT !["child"] = "reaped"]
  /\ readOpen' = [s \in Streams |-> FALSE]
  /\ waitRes' = WaitResult(status)
  /\ gpc' = "send"
  /\ UNCHANGED <<inputVars, cmdPath, callVars, mainVars, pgrp, holds, status,
                 signalled, kills, pipe, written, sink, errStdout, done, now>>

\* The send on an unbuffered channel: it completes only while the main logic is
\* receiving in the select.
GoSendUnbuffered ==
  /\ gpc = "send"
  /\ pc = "select"
  /\ Len(done) < DoneCap
  /\ done' = Append(done, waitRes)
  /\ gpc' = "finished"
  /\ UNCHANGED <<inputVars, cmdPath, callVars, osVars, pipeVars, mainVars,
                 sink, errStdout, waitRes, now>>

\* done <- (the value of cmd.Wait())
GoSend ==
  /\ gpc = "send"
  /\ Len(done) < DoneCap
  /\ done' = Append(done, waitRes)
  /\ gpc' = "finished"
  /\ UNCHANGED <<inputVars, cmdPath, callVars, osVars, pipeVars, mainVars,
                 sink, errStdout, waitRes, now>>

\* ------------------------------------------------ main logic, lines 69-95
\* The copy of stderr that, on an I/O error, goes on to kill the process group.
MainCopyStderrAbortOnError ==
  /\ pc = "copyStderr"
  /\ \E o \in CopyOutcomes("stderr") :
       /\ sink' = [sink EXCEPT !["stderr"] = o.w]
       /\ pipe' = [pipe EXCEPT !["stderr"] = o.p]
       /\ IF o.fin
          THEN /\ errStderr' = o.err
               /\ pc' = IF o.err # ErrNil THEN "getpgid" ELSE "select"
               /\ timerAt' = now + timeout
          ELSE UNCHANGED <<errStderr, pc, timerAt>>
  /\ UNCHANGED <<inputVars, cmdPath, callVars, osVars, goVars, readOpen,
                 written, timeout, branch, pgid, ret, msgs, now>>

\* _, errStderr = io.Copy(stderr, stderrIn); when it ends, the select
\* statement is entered and time.After arms the timer.
MainCopyStderr ==
  /\ pc = "copyStderr"
  /\ \E o \in CopyOutcomes("stderr") :
       /\ sink' = [sink EXCEPT !["stderr"] = o.w]
       /\ pipe' = [pipe EXCEPT !["stderr"] = o.p]
       /\ IF o.fin
          THEN /\ errStderr' = o.err
               /\ pc' = "select"
               /\ timerAt' = now + timeout
          ELSE UNCHANGED <<errStderr, pc, timerAt>>
  /\ UNCHANGED <<inputVars, cmdPath, callVars, osVars, goVars, readOpen,
                 written, timeout, branch, pgid, ret, msgs, now>>

TimerFired == timerAt # NoTimer /\ now >= timerAt

\* case <-time.After(...)
SelectDeadline ==
  /\ pc = "select"
  /\ TimerFired
  /\ branch' = "deadline"
  /\ pc' = "getpgid"
  /\ UNCHANGED <<inputVars, cmdPath, callVars, osVars, pipeVars, goVars, sink,
                 timeout, errStderr, pgid, ret, msgs, now, timerAt>>

\* case err := <-done, with the received error dropped.
SelectDoneIgnoreErr ==
  /\ pc = "select"
  /\ done # <<>>
  /\ done' = Tail(done)
  /\ branch' = "exit"
  /\ ret' = ret /\ pc' = "checkErr"
  /\ UNCHANGED <<inputVars, cmdPath, callVars, osVars, pipeVars, gpc,
                 errStdout, waitRes, sink, timeout, errStderr, pgid, msgs,
                 now, timerAt>>

\* case err := <-done
SelectDone ==
  /\ pc = "select"
  /\ done # <<>>
  /\ done' = Tail(done)
  /\ branch' = "exit"
  /\ IF Head(done) # ErrNil
     THEN ret' = ErrFinished(Head(done)) /\ pc' = "returned"
     ELSE ret' = ret /\ pc' = "checkErr"
  /\ UNCHANGED <<inputVars, cmdPath, callVars, osVars, pipeVars, gpc,
                 errStdout, waitRes, sink, timeout, errStderr, pgid, msgs,
                 now, timerAt>>

\* pgid, err := syscall.Getpgid(cmd.Process.Pid): fails once the child has
\* been reaped.
Getpgid ==
  /\ pc = "getpgid"
  /\ IF Alive("child")
     THEN pgid' = pgrp["child"] /\ pc' = "kill" /\ ret' = ret
     ELSE pgid' = pgid /\ pc' = "returned" /\ ret' = ErrESRCH
  /\ UNCHANGED <<inputVars, cmdPath, callVars, osVars, pipeVars, goVars, sink,
                 timeout, branch, errStderr, msgs, now, timerAt>>

\* syscall.Kill(pgid, 15): the signal addressed to one process.
KillTargetPid(g) == g

\* The first argument of syscall.Kill(-pgid, 15).
KillTarget(g) == -g

\* The processes kill(target, sig) delivers to: a process group for a
\* negative target, one process otherwise.
Receivers(target) ==
  IF target < 0
  THEN {p \in Procs : Alive(p) /\ pgrp[p] = -target}
  ELSE {p \in Procs : Alive(p) /\ Pid[p] = target}

\* syscall.Kill(-pgid, 15) followed by a wait for the exit notification.
KillThenAwaitExit ==
  /\ pc = "kill"
  /\ kills' = Append(kills, KillTarget(pgid))
  /\ IF Receivers(KillTarget(pgid)) = {}
     THEN /\ ret' = ErrESRCH
          /\ pc' = "returned"
          /\ UNCHANGED <<signalled, msgs, timerAt>>
     ELSE /\ signalled' = signalled \cup Receivers(KillTarget(pgid))
          /\ msgs' = Append(msgs, <<"killed", timeout>>)
          /\ pc' = "select"
          /\ timerAt' = NoTimer
          /\ ret' = ret
  /\ UNCHANGED <<inputVars, cmdPath, callVars, pipeVars, goVars, sink, pstate,
                 pgrp, holds, status, timeout, branch, errStderr, pgid, now>>

\* syscall.Kill(-pgid, 15) with its error dropped.
KillIgnoreError ==
  /\ pc = "kill"
  /\ kills' = Append(kills, KillTarget(pgid))
  /\ signalled' = signalled \cup Receivers(KillTarget(pgid))
  /\ msgs' = Append(msgs, <<"killed", timeout>>)
  /\ pc' = "checkErr"
  /\ ret' = ret
  /\ UNCHANGED <<inputVars, cmdPath, callVars, pipeVars, goVars, sink, pstate,
                 pgrp, holds, status, timeout, branch, errStderr, pgid, now,
                 timerAt>>

\* syscall.Kill(-pgid, 15): fails when no process is addressed.
Kill ==
  /\ pc = "kill"
  /\ kills' = Append(kills, KillTarget(pgid))
  /\ IF Receivers(KillTarget(pgid)) = {}
     THEN /\ ret' = ErrESRCH
          /\ pc' = "returned"
          /\ UNCHANGED <<signalled, msgs>>
     ELSE /\ signalled' = signalled \cup Receivers(KillTarget(pgid))
          /\ msgs' = Append(msgs, <<"killed", timeout>>)
          /\ pc' = "checkErr"
          /\ ret' = ret
  /\ UNCHANGED <<inputVars, cmdPath, callVars, pipeVars, goVars, sink, pstate,
                 pgrp, holds, status, timeout, branch, errStderr, pgid, now,
                 timerAt>>

\* The values a read of errStdout by the main logic may yield. After the
\* receive from done the goroutine's write happened before the read. On the
\* deadline path nothing orders the two: the read races with the write and
\* yields the old value (nil) or the value written.
ReadErrStdout ==
  IF branch = "exit" THEN {errStdout} ELSE {ErrNil, errStdout}

\* if errStdout != nil || errStderr != nil { return capture error }; return nil
CheckErr ==
  /\ pc = "checkErr"
  /\ \E e \in ReadErrStdout :
       IF e # ErrNil \/ errStderr # ErrNil
       THEN ret' = ErrCapture /\ msgs' = msgs
       ELSE ret' = ErrNil /\ msgs' = Append(msgs, <<"success">>)
  /\ pc' = "returned"
  /\ UNCHANGED <<inputVars, cmdPath, callVars, osVars, pipeVars, goVars, sink,
                 timeout, branch, errStderr, pgid, now, timerAt>>

\* ------------------------------------------------- the child and the system
\* The child writes its next byte to s; it blocks while the pipe is full.
ChildWrite(s) ==
  /\ pstate["child"] = "running"
  /\ s \in holds["child"]
  /\ Len(pipe[s]) < PipeCap
  /\ Len(written[s]) < MaxOut
  /\ pipe' = [pipe EXCEPT ![s] = Append(@, ByteOf(s, Len(written[s]) + 1))]
  /\ written' = [written EXCEPT ![s] = Append(@, ByteOf(s, Len(written[s]) + 1))]
  /\ UNCHANGED <<inputVars, cmdPath, callVars, osVars, goVars, mainVars,
                 readOpen, sink, now>>

\* The child closes its write end of s.
ChildClose(s) ==
  /\ pstate["child"] = "running"
  /\ s \in holds["child"]
  /\ holds' = [holds EXCEPT !["child"] = @ \ {s}]
  /\ UNCHANGED <<inputVars, cmdPath, callVars, pipeVars, goVars, mainVars,
                 sink, now, pstate, pgrp, status, signalled, kills>>

\* The child forks a descendant, which inherits its group and its pipe ends.
ChildFork ==
  /\ pstate["child"] = "running"
  /\ pstate["desc"] = "none"
  /\ pstate' = [pstate EXCEPT !["desc"] = "running"]
  /\ pgrp' = [pgrp EXCEPT !["desc"] = pgrp["child"]]
  /\ holds' = [holds EXCEPT !["desc"] = holds["child"]]
  /\ UNCHANGED <<inputVars, cmdPath, callVars, pipeVars, goVars, mainVars,
                 sink, now, status, signalled, kills>>

\* The descendant leaves the child's process group (setsid).
DescSetsid ==
  /\ pstate["desc"] = "running"
  /\ pgrp["desc"] # Pid["desc"]
  /\ pgrp' = [pgrp EXCEPT !["desc"] = Pid["desc"]]
  /\ UNCHANGED <<inputVars, cmdPath, callVars, pipeVars, goVars, mainVars,
                 sink, now, pstate, holds, status, signalled, kills>>

\* The child exits on its own, or is ended by a delivered signal; the
\* descendant likewise (init reaps it).
ChildExit ==
  /\ pstate["child"] = "running"
  /\ \E st \in ExitStatuses \cup {StatusSignalled} :
       /\ st = StatusSignalled => "child" \in signalled
       /\ status' = st
  /\ pstate' = [pstate EXCEPT !["child"] = "zombie"]
  /\ holds' = [holds EXCEPT !["child"] = {}]
  /\ UNCHANGED <<inputVars, cmdPath, callVars, pipeVars, goVars, mainVars,
                 sink, now, pgrp, signalled, kills>>

DescExit ==
  /\ pstate["desc"] = "running"
  /\ pstate' = [pstate EXCEPT !["desc"] = "reaped"]
  /\ holds' = [holds EXCEPT !["desc"] = {}]
  /\ UNCHANGED <<inputVars, cmdPath, callVars, pipeVars, goVars, mainVars,
                 sink, now, pgrp, status, signalled, kills>>

\* The main logic is blocked: in a read of stderr that cannot return, or in
\* the select statement with neither channel ready.
MainBlocked ==
  \/ pc = "copyStderr" /\ CopyOutcomes("stderr") = {}
  \/ pc = "select" /\ ~TimerFired /\ done = <<>>

\* A second passes. The supervisor's own steps take no time: the clock
\* advances only while the main logic is blocked.
Tick ==
  /\ MainBlocked
  /\ now < MaxTime
  /\ now' = now + 1
  /\ UNCHANGED <<inputVars, cmdPath, callVars, osVars, pipeVars, goVars,
                 mainVars, sink>>

Supervisor ==
  \/ Start
  \/ MainCopyStderr
  \/ SelectDeadline
  \/ SelectDone
  \/ Getpgid
  \/ Kill
  \/ CheckErr

Goroutine ==
  \/ GoCopyStdout
  \/ GoWait
  \/ GoSend

Environment ==
  \/ \E s \in Streams : ChildWrite(s)
  \/ \E s \in Streams : ChildClose(s)
  \/ ChildFork
  \/ DescSetsid
  \/ ChildExit
  \/ DescExit
  \/ Tick

Next == Supervisor \/ Goroutine \/ Environment

Spec == Init /\ [][Next]_vars

\* The entry of CmdRun alone (lines 41-61), for every script path.
EntryInit ==
  /\ scriptOK \in BOOLEAN
  /\ scriptPath \in Paths
  /\ timeout \in TimeoutArgs
  /\ InitRun

EntrySpec == EntryInit /\ [][Start]_vars

\* One CapturingPassThroughWriter alone (lines 16-39), called with any slices
\* over any destination: one that may accept any number of the bytes, with or
\* without an error.
SinkBytes == {1, 2}
Slices == UNION {[1..n -> SinkBytes] : n \in 0..MaxSlice}
WriterOutcomes(d) == {<<n, e>> : n \in 0..Len(d), e \in {ErrNil, ErrForward}}

SinkInit ==
  /\ scriptOK = TRUE
  /\ scriptPath \in RunPaths
  /\ timeout = DefaultTimeout
  /\ InitRun

\* stdout.Write(d), the destination answering a.
SinkWrite ==
  /\ \E d \in Slices :
       /\ Len(written["stdout"]) + Len(d) <= MaxSinkLen
       /\ \E a \in WriterOutcomes(d) :
            /\ sink' = [sink EXCEPT !["stdout"] = Write(@, d, a[1])]
            /\ written' = [written EXCEPT !["stdout"] = @ \o d]
            /\ wret' = WriteReturn(a[1], a[2])
            /\ destAns' = a
  /\ UNCHANGED <<inputVars, cmdPath, osVars, goVars, mainVars, pipe, readOpen,
                 now>>

SinkSpec == SinkInit /\ [][SinkWrite]_vars

\* The Go scheduler runs every runnable goroutine, and time passes.
FairSpec ==
  /\ Spec
  /\ WF_vars(Supervisor)
  /\ WF_vars(Goroutine)
  /\ WF_vars(Tick)

\* ------------------------------------------------------------------ claims
Returned == pc = "returned"
Captured(s) == Bytes(sink[s])
Forwarded(s) == sink[s].fwd
KillDelivered == signalled # {}

\* C1 (timely termination): a child that is still running and still holds both
\* pipes open when the timeout, counted from launch, has elapsed has been sent
\* the termination signal through the deadline branch; the supervisor does not
\* go on waiting for it.
C1_TimelyTermination ==
  (/\ pc # "entry"
   /\ pstate["child"] = "running"
   /\ holds["child"] = Streams
   /\ now > timeout)
  => (branch = "deadline" /\ KillDelivered)

\* C2 (bounded run): every invocation of CmdRun eventually returns, whatever
\* the child does.
C2_BoundedRun == <>Returned

\* C3 (disjoint outcome tags): a run that ended because the deadline fired and
\* the group kill succeeded returns a value different from the value of a
\* successful completion (nil).
C3_TimedOutDistinctFromSuccess ==
  (Returned /\ branch = "deadline" /\ KillDelivered) => ret # ErrNil

\* C4 (fast failure): when the script cannot be started CmdRun returns the
\* launch error at once, for every timeout: no goroutine, no drain, no timer,
\* no signal, no message, and no time has passed.
C4_FastFailure ==
  (~scriptOK /\ pc # "entry")
  => /\ Returned
     /\ ret = ErrLaunch
     /\ gpc = "none"
     /\ timerAt = NoTimer
     /\ kills = <<>> /\ signalled = {}
     /\ \A s \in Streams : sink[s] = EmptySink
     /\ msgs = <<>>
     /\ now = 0

C4_Witness == ~scriptOK /\ Returned /\ ret = ErrLaunch /\ timeout = 1

\* C5 (completion outcome): a return through the exit-notification branch is
\* decided by the exit status: a non-zero status gives the execution error
\* carrying that status, a zero status with no drain error gives nil.
C5_CompletionOutcome ==
  (Returned /\ branch = "exit")
  => /\ status # 0 => ret = ErrFinished(ExitError(status))
     /\ (status = 0 /\ errStdout = ErrNil /\ errStderr = ErrNil) => ret = ErrNil

C5_Witness ==
  /\ Returned /\ branch = "exit" /\ status = 1
  /\ ret = ErrFinished(ExitError(1))

\* C6 (group-wide kill): the kill of the deadline branch, when it succeeds,
\* delivers the signal to the child and to every descendant that is then a
\* member of the child's process group.
C6_GroupWideKill ==
  [][(pc = "kill" /\ pc' = "checkErr")
       => \A p \in {"child", "desc"} :
            (Alive(p) /\ pgrp[p] = pgrp["child"]) => p \in signalled']_vars

C6_Witness ==
  /\ branch = "deadline" /\ pc = "checkErr"
  /\ {"child", "desc"} \subseteq signalled
  /\ pstate["child"] = "running" /\ pstate["desc"] = "running"

\* C7 (timeout kill error): when the deadline branch was taken and the lookup
\* of the process group or the delivery of the signal failed, CmdRun returned
\* that failure, not nil, and printed no kill or success message.
C7_TimeoutKillError ==
  (Returned /\ branch = "deadline" /\ ~KillDelivered)
  => /\ ret = ErrESRCH
     /\ ret # ErrNil
     /\ Len(msgs) = 1

C7_Witness ==
  Returned /\ branch = "deadline" /\ kills # <<>> /\ ~KillDelivered

\* C8 (capture error independent of exit status): whenever a drain ended with
\* an I/O error (here: forwarding to the supervisor's own stream failed), a
\* return through the exit branch carries the capture error, for a zero and
\* for a non-zero exit status.
C8_CaptureErrorIndependent ==
  (Returned /\ branch = "exit" /\ ErrForward \in {errStdout, errStderr})
  => ret = ErrCapture

\* C9 (fidelity and order): for a run that completed normally, the captured
\* bytes and the forwarded bytes of each stream are exactly the bytes written
\* to that stream, in order.
C9_Fidelity ==
  (Returned /\ branch = "exit" /\ ret = ErrNil)
  => \A s \in Streams : Captured(s) = written[s] /\ Forwarded(s) = written[s]

C9_Witness ==
  /\ Returned /\ branch = "exit" /\ ret = ErrNil
  /\ Len(written["stdout"]) = MaxOut /\ Len(written["stderr"]) = MaxOut
  /\ \A s \in Streams : Captured(s) = written[s]

\* C10 (no deadlock under backpressure): a child without descendants that
\* wrote more than the pipe capacity to a stream and then exited with status
\* zero, with no forwarding failure, gives a run that completes with the full
\* output of both streams captured.
C10_BackpressureFullCapture ==
  (/\ Returned /\ branch = "exit"
   /\ pstate["desc"] = "none"
   /\ status = 0
   /\ \A s \in Streams : Forwarded(s) = Captured(s)
   /\ \E s \in Streams : Len(written[s]) > PipeCap)
  => (ret = ErrNil /\ \A s \in Streams : Captured(s) = written[s])

\* What the value CmdRun returns lets the caller read of the captured bytes of
\* stream s: the result type is error (line 41), the two writers are local
\* variables and Bytes() is never called, so nothing.
OutcomeCaptured(r, s) == <<"none">>

\* C11 (outcome carries the captured output): in every terminal state after a
\* successful launch the returned outcome carries the captured stdout bytes
\* and the captured stderr bytes.
C11_OutcomeCarriesCapture ==
  (Returned /\ scriptOK)
  => \A s \in Streams : OutcomeCaptured(ret, s) = <<"bytes", Captured(s)>>

\* C12 (default timeout): entered with a timeout <= 0, CmdRun continues from
\* exactly the state it continues from when entered with timeout = 3: the same
\* timeout (hence the same deadline) and the same start message.
C12_DefaultTimeout ==
  [][(pc = "entry" /\ timeout <= 0)
       => /\ timeout' = EffectiveTimeout(DefaultTimeout)
          /\ timeout' = DefaultTimeout
          /\ scriptOK => msgs' = <<<<"start", scriptPath, DefaultTimeout>>>>]_vars

C12_Witness == pc = "entry" /\ timeout <= 0 /\ scriptOK /\ ENABLED Start

\* The path with all leading and trailing whitespace removed.
RECURSIVE TrimLeft(_, _)
TrimLeft(s, cutset) ==
  IF s # <<>> /\ s[1] \in cutset THEN TrimLeft(Tail(s), cutset) ELSE s
Stripped(s) == TrimLeft(TrimRight(s, Whitespace), Whitespace)

\* C13 (script path normalisation): the path executed is the supplied path
\* with all leading whitespace, all trailing whitespace and a trailing newline
\* removed (stated for the paths that name something).
C13_PathNormalised ==
  (pc # "entry" /\ Stripped(scriptPath) # <<>>)
  => cmdPath = Stripped(scriptPath)

\* C14 (first signal wins): the select statement is passed once. After the
\* exit branch no process group is looked up and no signal is sent, even with
\* the timer fired; after the deadline branch the main logic never goes back
\* to the select and never receives from done.
C14_FirstSignalWins ==
  [][/\ branch # "none" => branch' = branch
     /\ branch' = "exit"
          => /\ pc' \notin {"getpgid", "kill"}
             /\ kills' = <<>> /\ signalled' = {} /\ pgid' = 0
     /\ branch = "deadline"
          => /\ pc' # "select"
             /\ done' = done \/ done' = Append(done, waitRes)]_vars

C14_Witness ==
  Returned /\ branch = "exit" /\ TimerFired /\ kills = <<>>

C14_WitnessDeadline ==
  Returned /\ branch = "deadline" /\ done # <<>>

\* C15 (normal-completion path is complete): when CmdRun returns through the
\* exit branch the goroutine has finished its copy of stdout, its cmd.Wait()
\* and its send, the child is reaped, the copy of stderr has returned, and
\* from then on neither captured buffer changes.
C15_NormalPathComplete ==
  [][(Returned' /\ branch' = "exit")
       => /\ gpc' = "finished"
          /\ pstate'["child"] = "reaped"
          /\ pc # "copyStderr"
          /\ Returned => sink' = sink]_vars

C15_Witness ==
  /\ Returned /\ branch = "exit" /\ gpc = "finished"
  /\ Len(Captured("stdout")) = MaxOut /\ Len(Captured("stderr")) = MaxOut

\* C16 (sink capture): after any sequence of Write calls, Bytes() is the
\* concatenation in call order of every slice passed, whatever the destination
\* accepted, and the call returned the destination's count and error.
C16_SinkCapture ==
  /\ Bytes(sink["stdout"]) = written["stdout"]
  /\ wret = destAns

C16_Witness ==
  /\ Len(written["stdout"]) = MaxSinkLen
  /\ Bytes(sink["stdout"]) = written["stdout"]
  /\ Len(Forwarded("stdout")) < Len(written["stdout"])
  /\ wret = <<1, ErrForward>>

\* C17 (a capture error never terminates the process): at most one kill is
\* made per invocation, only in the deadline branch and only once the timer
\* has fired; no process is signalled otherwise, whatever the drains reported.
C17_CaptureErrorNeverSignals ==
  /\ Len(kills) <= 1
  /\ kills # <<>> => (branch = "deadline" /\ TimerFired)
  /\ signalled # {} => kills # <<>>

C17_Witness ==
  /\ errStdout = ErrForward
  /\ pstate["child"] = "running"
  /\ pc = "select" /\ ~TimerFired
  /\ kills = <<>> /\ signalled = {}

C19_WaitAfterBothDrains ==
  /\ pc = "copyStderr" => readOpen["stderr"]
  /\ errStderr # ErrClosed
  /\ errStdout # ErrClosed

\* C20 (errStdout is read after it is written): whenever the main logic reads
\* errStdout (line 90), the goroutine's copy of stdout has ended and has
\* assigned it.
C20_ErrStdoutReadAfterWrite ==
  [][(pc = "checkErr" /\ pc' = "returned") => gpc # "copyStdout"]_vars

\* C21 (the goroutine's send never blocks): the channel receives exactly one
\* send per run (the values sent and not yet received, plus the one the select
\* has received, are one once the goroutine has finished and none before), so
\* whenever the goroutine stands at its send the send can be done at once,
\* also after the main logic took the deadline branch and returned.
C21_SendNeverBlocks ==
  /\ gpc = "send" => ENABLED GoSend
  /\ Len(done) + (IF branch = "exit" THEN 1 ELSE 0)
       = (IF gpc = "finished" THEN 1 ELSE 0)
  /\ Len(done) <= DoneCap

C21_Witness ==
  /\ pc = "returned" /\ branch = "deadline"
  /\ gpc = "finished" /\ Len(done) = 1

C21_WitnessPending ==
  /\ pc = "returned" /\ branch = "deadline"
  /\ gpc = "send" /\ ENABLED GoSend

\* C22 (every started child is waited for exactly once): only cmd.Wait reaps
\* the child, the goroutine passes its cmd.Wait once and never comes back to
\* it, and, on the exit path and on the deadline path alike, once the child
\* has exited and no write end of stdout is open any more, the child is
\* eventually reaped.
C22_WaitedExactlyOnce ==
  /\ [][(pstate'["child"] = "reaped" /\ pstate["child"] # "reaped")
          => (gpc = "wait" /\ gpc' = "send")]_vars
  /\ [][(gpc \in {"send", "finished"})
          => (gpc' \in {"send", "finished"})]_vars
  /\ (pstate["child"] = "zombie" /\ ~HasWriter("stdout"))
       ~> (pstate["child"] = "reaped")

C22_Witness ==
  /\ pc = "returned" /\ branch = "deadline"
  /\ pstate["child"] = "reaped" /\ errStdout = ErrForward

====
